---- MODULE Spec2Model ----
(* Model of src/src/gerador_dados.py: one run of processar_dados, which      *)
(* creates the output directories, generates the registry frame              *)
(* (gerar_dados_cadastrais), generates the order frame (gerar_dados_vendas)  *)
(* and writes both frames to Parquet.  Values are in cents where the code    *)
(* rounds to two decimals; a message is the sequence of its parts.           *)
EXTENDS Integers, Sequences, FiniteSets, TLC

\* ---------------------------------------------------------------- bounds
MaxN == 2          \* largest n_linhas_cadastros tried
MaxM == 2          \* largest n_pedidos tried
MaxTries == 2      \* redraws fake.unique allows before UniquenessException

\* ------------------------------------------------- values the code draws
CPFs == {"111.111.111-11", "222.222.222-22", "333.333.333-33"}
GeneroDraws == {"F"}          \* of random.choice(['M', 'F'])
RuaDraws == {"Rua A", "Rua B"}
CidadeDraws == {"Recife", "Natal"}
NumeroDraws == {"1"}
BairroDraws == {"Centro"}
EstadoDraws == {"Pernambuco"}
WordDraws == {"quia"}
DescontoDraws == {1000, 2000}
PedidoDraws == {3000}
FreteDraws == {1000}
FieldFaults == {"Exception"}
IOFaults == {"OSError"}

NoneValue == "<None>"

\* ------------------------------------------------------------- messages
CadMsg == "Erro ao gerar dados de cadastro"
MapMsg == "Erro ao mapear CPF para endereço"
VendasMsg == "Erro ao gerar dados de vendas"
ProcMsg == "Erro durante o processamento dos dados"
UniquenessMsg == "UniquenessException"
NoCpfColumnMsg == "None of ['cpf'] are in the columns"

\* f"{prefix}: {e}"
Wrap(prefix, e) == <<prefix>> \o e

\* mutant: the except clause re-raises the inner message without its prefix
ProcessarNoWrap(e) == e

\* the except clause of processar_dados
ProcessarWrap(e) == Wrap(ProcMsg, e)

\* the except clause of gerar_dados_cadastrais
CadastroWrap(e) == Wrap(CadMsg, e)

\* the two except clauses of gerar_dados_vendas; kind is the exception class
VendasWrap(kind, e) == IF kind = "KeyError" THEN Wrap(MapMsg, e) ELSE Wrap(VendasMsg, e)

\* ------------------------------------------------------------- schemas
CadCols == <<"id", "nome", "cpf", "data_nascimento", "email", "telefone",
             "rua", "numero", "bairro", "cidade", "estado", "pais", "cep",
             "genero", "profissao", "data_cadastro">>

PedCols == <<"id_pedido", "cpf", "valor_pedido", "valor_frete",
             "valor_desconto", "cupom", "forma_pagamento",
             "endereco_entrega", "cidade_entrega", "estado_entrega",
             "pais_entrega", "status_pedido", "data_pedido">>

StatusPedido == <<"Entregue", "Aguardando envio", "Aguardando pagamento", "Cancelado">>
FormaPagamento == <<"Cartão de crédito", "Boleto", "Cartão de débito", "Pix">>

\* ------------------------------------------------------------- frames
Range(s) == {s[i] : i \in 1..Len(s)}

\* a name not yet bound to a frame
Unset == [set |-> FALSE, columns |-> <<>>, rows |-> <<>>]

\* mutant: pd.DataFrame(data, columns=keys), which keeps the columns of an empty list
DataFrameWithColumns(data, keys) == [set |-> TRUE, columns |-> keys, rows |-> data]

\* pd.DataFrame(data): the columns are the keys of the dicts, so a frame built
\* from an empty list has no columns at all
DataFrame(data, keys) ==
  [set |-> TRUE, columns |-> IF Len(data) = 0 THEN <<>> ELSE keys, rows |-> data]

HasColumn(df, col) == col \in Range(df.columns)

\* df[col]
Column(df, col) == [i \in 1..Len(df.rows) |-> df.rows[i][col]]

\* df.set_index('cpf')[col].to_dict(): a later row overwrites an earlier one
ToDict(df, col) ==
  [c \in Range(Column(df, "cpf")) |->
     LET last == CHOOSE i \in 1..Len(df.rows) :
                   /\ df.rows[i]["cpf"] = c
                   /\ \A j \in 1..Len(df.rows) : df.rows[j]["cpf"] = c => j <= i
     IN df.rows[last][col]]

\* random.choice(seq)
RandomChoice(seq) == Range(seq)

\* df.to_parquet(path, index=...): the file keeps the frame's columns and rows
ToParquet(df, index) ==
  [set |-> TRUE,
   columns |-> IF index THEN <<"__index_level_0__">> \o df.columns ELSE df.columns,
   rows |-> df.rows]

\* mutant: fake.cpf() in place of fake.unique.cpf()
UniqueAcceptsAny(c, seen) == TRUE

\* fake.unique: a value is returned only if not yet seen
UniqueAccepts(c, seen) == c \notin seen

\* mutant: the test is >= 0
CupomAlways(valor_desconto, word) == IF valor_desconto >= 0 THEN word ELSE NoneValue

\* cupom = fake.word() if valor_desconto > 0 else None
Cupom(valor_desconto, word) == IF valor_desconto > 0 THEN word ELSE NoneValue

\* f"{rua}, {numero}, {bairro}"
EnderecoEntrega(rua, numero, bairro) == <<rua, ", ", numero, ", ", bairro>>

\* the dict appended by gerar_dados_cadastrais
CadastroRecord(cpf, genero, rua, numero, bairro, cidade, estado) ==
  [id |-> "uuid4",
   nome |-> IF genero = "M" THEN "name_male" ELSE "name_female",
   cpf |-> cpf,
   data_nascimento |-> "date_of_birth",
   email |-> "email",
   telefone |-> "phone_number",
   rua |-> rua,
   numero |-> numero,
   bairro |-> bairro,
   cidade |-> cidade,
   estado |-> estado,
   pais |-> "Brasil",
   cep |-> "postcode",
   genero |-> genero,
   profissao |-> "job",
   data_cadastro |-> "date_between"]

\* the dict appended by gerar_dados_vendas
PedidoRecord(cpf, pedido, frete, desconto, cupom, endereco, cidade, estado) ==
  [id_pedido |-> "uuid4",
   cpf |-> cpf,
   valor_pedido |-> pedido,
   valor_frete |-> frete,
   valor_desconto |-> desconto,
   cupom |-> cupom,
   forma_pagamento |-> FormaPagamento[1],
   endereco_entrega |-> endereco,
   cidade_entrega |-> cidade,
   estado_entrega |-> estado,
   pais_entrega |-> "Brasil",
   status_pedido |-> StatusPedido[1],
   data_pedido |-> "date_between"]

\* ------------------------------------------------------------- state
VARIABLES
  pc,             \* position in processar_dados
  n_linhas,       \* n_linhas_cadastros
  n_pedidos,      \* n_pedidos
  dirs,           \* directories created by os.makedirs
  seen,           \* values fake.unique has returned
  tries,          \* redraws of the current fake.unique.cpf() call
  cad_data,       \* data of gerar_dados_cadastrais
  cadastros_df,   \* cadastros_df of processar_dados
  maps,           \* rua_map, numero_map, bairro_map, cidade_map, estado_map
  cpf_cliente,    \* cpf_cliente of the current order iteration
  ped_data,       \* data of gerar_dados_vendas
  pedidos_df,     \* pedidos_df of processar_dados
  file_cad,       \* cadastros/cadastros.parquet
  file_ped,       \* pedidos/pedidos.parquet
  exc,            \* the exception first raised: [stage, kind, msg]
  err             \* the message of the RuntimeError the caller receives

vars == <<pc, n_linhas, n_pedidos, dirs, seen, tries, cad_data, cadastros_df,
          maps, cpf_cliente, ped_data, pedidos_df, file_cad, file_ped, exc, err>>

NoExc == [stage |-> "none", kind |-> "none", msg |-> <<>>]
NoMaps == [set |-> FALSE, rua |-> <<>>, numero |-> <<>>, bairro |-> <<>>,
           cidade |-> <<>>, estado |-> <<>>]

Init ==
  /\ pc = "mkdir_cad"
  /\ n_linhas \in 0..MaxN
  /\ n_pedidos \in 0..MaxM
  /\ dirs = {}
  /\ seen = {}
  /\ tries = 0
  /\ cad_data = <<>>
  /\ cadastros_df = Unset
  /\ maps = NoMaps
  /\ cpf_cliente = NoneValue
  /\ ped_data = <<>>
  /\ pedidos_df = Unset
  /\ file_cad = Unset
  /\ file_ped = Unset
  /\ exc = NoExc
  /\ err = <<>>

\* an exception of class kind with message msg leaves processar_dados:
\* inner is the message after the failing stage's own except clause
Raise(stage, kind, msg, inner) ==
  /\ pc' = "raised"
  /\ exc' = [stage |-> stage, kind |-> kind, msg |-> msg]
  /\ err' = ProcessarWrap(inner)

\* os.makedirs(caminho_cadastros, exist_ok=True)
MakeDirCadastros ==
  /\ pc = "mkdir_cad"
  /\ \/ /\ dirs' = dirs \cup {"cadastros/"}
        /\ pc' = "mkdir_ped"
        /\ UNCHANGED <<exc, err>>
     \/ /\ \E f \in IOFaults : Raise("makedirs", f, <<f>>, <<f>>)
        /\ UNCHANGED dirs
  /\ UNCHANGED <<n_linhas, n_pedidos, seen, tries, cad_data, cadastros_df, maps,
                 cpf_cliente, ped_data, pedidos_df, file_cad, file_ped>>

\* os.makedirs(caminho_pedidos, exist_ok=True)
MakeDirPedidos ==
  /\ pc = "mkdir_ped"
  /\ \/ /\ dirs' = dirs \cup {"pedidos/"}
        /\ pc' = "cadastros"
        /\ UNCHANGED <<exc, err>>
     \/ /\ \E f \in IOFaults : Raise("makedirs", f, <<f>>, <<f>>)
        /\ UNCHANGED dirs
  /\ UNCHANGED <<n_linhas, n_pedidos, seen, tries, cad_data, cadastros_df, maps,
                 cpf_cliente, ped_data, pedidos_df, file_cad, file_ped>>

\* ---------------------------------------------- gerar_dados_cadastrais
CadastroOthers == <<n_linhas, n_pedidos, dirs, cadastros_df, maps, cpf_cliente,
                    ped_data, pedidos_df, file_cad, file_ped>>

\* one iteration of the loop whose fake.unique.cpf() returns a fresh value
CadastroAppend ==
  /\ pc = "cadastros"
  /\ Len(cad_data) < n_linhas
  /\ \E genero \in GeneroDraws, c \in CPFs, rua \in RuaDraws, numero \in NumeroDraws,
        bairro \in BairroDraws, cidade \in CidadeDraws, estado \in EstadoDraws :
       /\ UniqueAccepts(c, seen)
       /\ seen' = seen \cup {c}
       /\ cad_data' = Append(cad_data,
                        CadastroRecord(c, genero, rua, numero, bairro, cidade, estado))
  /\ tries' = 0
  /\ UNCHANGED <<pc, exc, err>>
  /\ UNCHANGED CadastroOthers

\* fake.unique.cpf() drew a value already returned and draws again
CadastroRedraw ==
  /\ pc = "cadastros"
  /\ Len(cad_data) < n_linhas
  /\ \E c \in CPFs : ~UniqueAccepts(c, seen)
  /\ tries + 1 < MaxTries
  /\ tries' = tries + 1
  /\ UNCHANGED <<pc, seen, cad_data, exc, err>>
  /\ UNCHANGED CadastroOthers

\* fake.unique.cpf() ran out of redraws: UniquenessException, no frame returned
CadastroUniquenessFail ==
  /\ pc = "cadastros"
  /\ Len(cad_data) < n_linhas
  /\ \E c \in CPFs : ~UniqueAccepts(c, seen)
  /\ tries + 1 >= MaxTries
  /\ Raise("cadastros", UniquenessMsg, <<UniquenessMsg>>, CadastroWrap(<<UniquenessMsg>>))
  /\ UNCHANGED <<seen, tries, cad_data>>
  /\ UNCHANGED CadastroOthers

\* any other call of an iteration raises
CadastroFieldFault ==
  /\ pc = "cadastros"
  /\ Len(cad_data) < n_linhas
  /\ \E f \in FieldFaults : Raise("cadastros", f, <<f>>, CadastroWrap(<<f>>))
  /\ UNCHANGED <<seen, tries, cad_data>>
  /\ UNCHANGED CadastroOthers

\* mutant: the registry file is written as soon as the registry frame exists
CadastroReturnAndWrite ==
  /\ pc = "cadastros"
  /\ Len(cad_data) >= n_linhas
  /\ cadastros_df' = DataFrame(cad_data, CadCols)
  /\ file_cad' = ToParquet(DataFrame(cad_data, CadCols), FALSE)
  /\ pc' = "vendas_maps"
  /\ UNCHANGED <<n_linhas, n_pedidos, dirs, seen, tries, cad_data, maps, cpf_cliente,
                 ped_data, pedidos_df, file_ped, exc, err>>

\* return pd.DataFrame(data); the frame is bound to cadastros_df
CadastroReturn ==
  /\ pc = "cadastros"
  /\ Len(cad_data) >= n_linhas
  /\ cadastros_df' = DataFrame(cad_data, CadCols)
  /\ pc' = "vendas_maps"
  /\ UNCHANGED <<n_linhas, n_pedidos, dirs, seen, tries, cad_data, maps, cpf_cliente,
                 ped_data, pedidos_df, file_cad, file_ped, exc, err>>

\* -------------------------------------------------- gerar_dados_vendas
VendasOthers == <<n_linhas, n_pedidos, dirs, seen, tries, cad_data, cadastros_df,
                  file_cad, file_ped>>

\* mutant: an empty registry yields an empty order frame instead of an error
VendasMapsSwallow ==
  /\ pc = "vendas_maps"
  /\ IF HasColumn(cadastros_df, "cpf")
       THEN /\ maps' = [set |-> TRUE,
                        rua |-> ToDict(cadastros_df, "rua"),
                        numero |-> ToDict(cadastros_df, "numero"),
                        bairro |-> ToDict(cadastros_df, "bairro"),
                        cidade |-> ToDict(cadastros_df, "cidade"),
                        estado |-> ToDict(cadastros_df, "estado")]
            /\ pc' = "vendas"
            /\ UNCHANGED pedidos_df
       ELSE /\ pedidos_df' = DataFrame(<<>>, PedCols)
            /\ pc' = "write_cad"
            /\ UNCHANGED maps
  /\ UNCHANGED <<cpf_cliente, ped_data, exc, err>>
  /\ UNCHANGED VendasOthers

\* the five lookup tables, or the KeyError of set_index('cpf')
VendasMaps ==
  /\ pc = "vendas_maps"
  /\ IF HasColumn(cadastros_df, "cpf")
       THEN /\ maps' = [set |-> TRUE,
                        rua |-> ToDict(cadastros_df, "rua"),
                        numero |-> ToDict(cadastros_df, "numero"),
                        bairro |-> ToDict(cadastros_df, "bairro"),
                        cidade |-> ToDict(cadastros_df, "cidade"),
                        estado |-> ToDict(cadastros_df, "estado")]
            /\ pc' = "vendas"
            /\ UNCHANGED <<exc, err>>
       ELSE /\ Raise("vendas", "KeyError", <<NoCpfColumnMsg>>,
                     VendasWrap("KeyError", <<NoCpfColumnMsg>>))
            /\ UNCHANGED maps
  /\ UNCHANGED <<cpf_cliente, ped_data, pedidos_df>>
  /\ UNCHANGED VendasOthers

\* mutant: the customer is drawn from fake.cpf() instead of the registry
ChooseAnyCpf(df) == CPFs

\* cpf_cliente = random.choice(cadastros_df['cpf'])
ChooseCliente(df) == RandomChoice(Column(df, "cpf"))

\* valor_desconto = random.choice([0, round(random.uniform(10, 20), 2)])
ChooseDesconto == UNION {RandomChoice(<<0, x>>) : x \in DescontoDraws}

\* mutant: the city is looked up under the first key of the table
DeliveryCidadeOfFirst(m, cpf) ==
  m.cidade[CHOOSE k \in DOMAIN m.cidade : TRUE]

\* cidade_map[cpf_cliente]
DeliveryCidade(m, cpf) == m.cidade[cpf]

\* one iteration of the order loop: a record is appended, or a lookup of
\* cpf_cliente raises KeyError(cpf_cliente)
VendasIter ==
  /\ pc = "vendas"
  /\ Len(ped_data) < n_pedidos
  /\ IF Len(cadastros_df.rows) = 0
       THEN \* random.choice of an empty sequence
            /\ Raise("vendas", "IndexError", <<"IndexError">>,
                     VendasWrap("IndexError", <<"IndexError">>))
            /\ UNCHANGED <<cpf_cliente, ped_data>>
       ELSE \E c \in ChooseCliente(cadastros_df), pedido \in PedidoDraws,
               frete \in FreteDraws, desconto \in ChooseDesconto, word \in WordDraws :
              /\ cpf_cliente' = c
              /\ IF c \in DOMAIN maps.rua
                   THEN /\ ped_data' = Append(ped_data,
                             PedidoRecord(c, pedido, frete, desconto, Cupom(desconto, word),
                                          EnderecoEntrega(maps.rua[c], maps.numero[c],
                                                          maps.bairro[c]),
                                          DeliveryCidade(maps, c), maps.estado[c]))
                        /\ UNCHANGED <<pc, exc, err>>
                   ELSE /\ Raise("vendas", "KeyError", <<c>>, VendasWrap("KeyError", <<c>>))
                        /\ UNCHANGED ped_data
  /\ UNCHANGED <<maps, pedidos_df>>
  /\ UNCHANGED VendasOthers

\* any other call of an iteration raises
VendasFieldFault ==
  /\ pc = "vendas"
  /\ Len(ped_data) < n_pedidos
  /\ \E f \in FieldFaults : Raise("vendas", f, <<f>>, VendasWrap(f, <<f>>))
  /\ UNCHANGED <<maps, cpf_cliente, ped_data, pedidos_df>>
  /\ UNCHANGED VendasOthers

\* return pd.DataFrame(data); the frame is bound to pedidos_df
VendasReturn ==
  /\ pc = "vendas"
  /\ Len(ped_data) >= n_pedidos
  /\ pedidos_df' = DataFrame(ped_data, PedCols)
  /\ pc' = "write_cad"
  /\ UNCHANGED <<maps, cpf_cliente, ped_data, exc, err>>
  /\ UNCHANGED VendasOthers

\* ------------------------------------------------------------ writing
WriteOthers == <<n_linhas, n_pedidos, dirs, seen, tries, cad_data, cadastros_df, maps,
                 cpf_cliente, ped_data, pedidos_df>>

\* cadastros_df.to_parquet(cadastros_parquet_path, engine='pyarrow', index=False)
WriteCadastros ==
  /\ pc = "write_cad"
  /\ \/ /\ file_cad' = ToParquet(cadastros_df, FALSE)
        /\ pc' = "write_ped"
        /\ UNCHANGED <<exc, err>>
     \/ /\ \E f \in IOFaults : Raise("write_cad", f, <<f>>, <<f>>)
        /\ UNCHANGED file_cad
  /\ UNCHANGED file_ped
  /\ UNCHANGED WriteOthers

\* pedidos_df.to_parquet(pedidos_parquet_path, engine='pyarrow', index=False)
WritePedidos ==
  /\ pc = "write_ped"
  /\ \/ /\ file_ped' = ToParquet(pedidos_df, FALSE)
        /\ pc' = "done"
        /\ UNCHANGED <<exc, err>>
     \/ /\ \E f \in IOFaults : Raise("write_ped", f, <<f>>, <<f>>)
        /\ UNCHANGED file_ped
  /\ UNCHANGED file_cad
  /\ UNCHANGED WriteOthers

Next ==
  \/ MakeDirCadastros
  \/ MakeDirPedidos
  \/ CadastroAppend
  \/ CadastroRedraw
  \/ CadastroUniquenessFail
  \/ CadastroFieldFault
  \/ CadastroReturn
  \/ VendasMaps
  \/ VendasIter
  \/ VendasFieldFault
  \/ VendasReturn
  \/ WriteCadastros
  \/ WritePedidos

Spec == Init /\ [][Next]_vars

\* ------------------------------------------------------------ properties
Cpfs(rows) == {rows[i]["cpf"] : i \in 1..Len(rows)}
Distinct(rows) == Cardinality(Cpfs(rows)) = Len(rows)
IsMapErr == Len(err) >= 2 /\ err[2] = MapMsg
IsVendasErr == Len(err) >= 2 /\ err[2] = VendasMsg
BothDirs == {"cadastros/", "pedidos/"}

\* C1: the list gerar_dados_cadastrais builds never holds the same cpf twice,
\* and the frame it returns has exactly n_linhas rows with pairwise distinct cpf.
C1_RegistryUnique ==
  /\ Distinct(cad_data)
  /\ Cpfs(cad_data) \subseteq seen
  /\ cadastros_df.set =>
       /\ Len(cadastros_df.rows) = n_linhas
       /\ Distinct(cadastros_df.rows)

C1_Witness ==
  /\ cadastros_df.set
  /\ n_linhas >= 2
  /\ Len(cadastros_df.rows) = n_linhas

\* C2: from a registry of at least one record, the order frame returned has
\* exactly n_pedidos rows, every row's cpf is a cpf of the registry, and the
\* KeyError clause is never taken.
C2_OrdersResolve ==
  n_linhas >= 1 =>
    /\ ~IsMapErr
    /\ exc.kind # "KeyError"
    /\ pedidos_df.set =>
         /\ Len(pedidos_df.rows) = n_pedidos
         /\ Cpfs(pedidos_df.rows) \subseteq Cpfs(cadastros_df.rows)

C2_Witness ==
  /\ pedidos_df.set
  /\ n_linhas >= 2
  /\ n_pedidos >= 2
  /\ Len(pedidos_df.rows) = n_pedidos
  /\ Cardinality(Cpfs(pedidos_df.rows)) = 2

\* C3: in every order record the coupon is present exactly when the discount
\* is positive, and the discount is 0 or lies in [10.00, 20.00].
C3_CouponIffDiscount ==
  \A i \in 1..Len(ped_data) :
    /\ (ped_data[i]["cupom"] # NoneValue) <=> (ped_data[i]["valor_desconto"] > 0)
    /\ \/ ped_data[i]["valor_desconto"] = 0
       \/ /\ ped_data[i]["valor_desconto"] >= 1000
          /\ ped_data[i]["valor_desconto"] <= 2000

C3_Witness ==
  /\ pedidos_df.set
  /\ \E i, j \in 1..Len(pedidos_df.rows) :
       /\ pedidos_df.rows[i]["valor_desconto"] = 0
       /\ pedidos_df.rows[i]["cupom"] = NoneValue
       /\ pedidos_df.rows[j]["valor_desconto"] > 0
       /\ pedidos_df.rows[j]["cupom"] # NoneValue

\* C4: every order record carries the cidade, the estado and the composed
\* "rua, numero, bairro" of the registry record that has the order's cpf.
C4_DeliveryMatchesRegistry ==
  \A i \in 1..Len(ped_data) :
    \A k \in 1..Len(cadastros_df.rows) :
      cadastros_df.rows[k]["cpf"] = ped_data[i]["cpf"] =>
        /\ ped_data[i]["cidade_entrega"] = cadastros_df.rows[k]["cidade"]
        /\ ped_data[i]["estado_entrega"] = cadastros_df.rows[k]["estado"]
        /\ ped_data[i]["endereco_entrega"] =
             <<cadastros_df.rows[k]["rua"], ", ", cadastros_df.rows[k]["numero"], ", ",
               cadastros_df.rows[k]["bairro"]>>

C4_Witness ==
  /\ pedidos_df.set
  /\ \E i, j \in 1..Len(pedidos_df.rows) :
       /\ pedidos_df.rows[i]["cpf"] # pedidos_df.rows[j]["cpf"]
       /\ pedidos_df.rows[i]["cidade_entrega"] # pedidos_df.rows[j]["cidade_entrega"]
       /\ pedidos_df.rows[i]["endereco_entrega"] # pedidos_df.rows[j]["endereco_entrega"]

\* C5: with an empty registry and n_pedidos > 0 no order frame is ever
\* returned, no order file is written and processar_dados does not complete.
C5_EmptyRegistryFails ==
  (n_linhas = 0 /\ n_pedidos > 0) =>
    /\ ~pedidos_df.set
    /\ ~file_ped.set
    /\ pc \notin {"write_cad", "write_ped", "done"}

C5_Witness ==
  /\ n_linhas = 0
  /\ n_pedidos > 0
  /\ pc = "raised"
  /\ exc.stage = "vendas"
  /\ cadastros_df.set

\* C6: the message "Erro ao mapear CPF para endereço" is reported exactly when
\* a chosen cpf_cliente is missing from the lookup tables, and then names that cpf.
C6_LookupErrorOnlyForAbsentCpf ==
  /\ IsMapErr <=> /\ exc.stage = "vendas"
                  /\ cpf_cliente # NoneValue
                  /\ cpf_cliente \notin DOMAIN maps.rua
  /\ IsMapErr => err[Len(err)] = cpf_cliente

\* C7: the order frame exists only after the registry frame, a file is written
\* only after both frames exist, pedidos.parquet only after cadastros.parquet;
\* a failed generation leaves no file, a failed pedidos write leaves
\* cadastros.parquet in place.
C7_StageOrder ==
  /\ (maps.set \/ ped_data # <<>> \/ pedidos_df.set) => cadastros_df.set
  /\ file_cad.set => (cadastros_df.set /\ pedidos_df.set)
  /\ file_ped.set => file_cad.set
  /\ exc.stage \in {"makedirs", "cadastros", "vendas", "write_cad"} =>
       (~file_cad.set /\ ~file_ped.set)
  /\ exc.stage = "write_ped" =>
       /\ file_cad = ToParquet(cadastros_df, FALSE)
       /\ ~file_ped.set

C7_Witness ==
  /\ pc = "raised"
  /\ exc.stage = "write_ped"
  /\ file_cad.set
  /\ ~file_ped.set

\* C8: every fault leaves processar_dados as the processing failure whose
\* message is the prefix, then the failing generator's own prefix if any, then
\* the cause; a failed generator has bound no frame; nothing runs after the
\* failure; the run completes only with every stage done.
C8_SingleFailureKind ==
  /\ (pc = "raised") <=> (exc.stage # "none")
  /\ pc # "raised" => err = <<>>
  /\ pc = "raised" =>
       /\ ~ENABLED Next
       /\ Len(err) >= 2
       /\ err[1] = ProcMsg
       /\ exc.stage \in {"makedirs", "write_cad", "write_ped"} => err = <<ProcMsg>> \o exc.msg
       /\ exc.stage = "cadastros" =>
            /\ err = <<ProcMsg, CadMsg>> \o exc.msg
            /\ ~cadastros_df.set
       /\ exc.stage = "vendas" =>
            /\ err[2] \in {MapMsg, VendasMsg}
            /\ err = <<ProcMsg, err[2]>> \o exc.msg
            /\ ~pedidos_df.set
  /\ pc = "done" =>
       /\ dirs = BothDirs
       /\ cadastros_df.set
       /\ pedidos_df.set
       /\ file_cad.set
       /\ file_ped.set

C8_Witness ==
  /\ pc = "raised"
  /\ exc.stage = "vendas"
  /\ IsVendasErr
  /\ ped_data # <<>>
  /\ ~pedidos_df.set

\* C9: after a run that completes, each file has one row per generated record
\* and exactly the column sequence of its schema, whatever the counts.
C9_FixedColumns ==
  pc = "done" =>
    /\ file_cad.columns = CadCols
    /\ Len(file_cad.rows) = n_linhas
    /\ file_ped.columns = PedCols
    /\ Len(file_ped.rows) = n_pedidos

\* C10: with an empty registry, whatever n_pedidos, gerar_dados_vendas fails
\* while building its lookup tables: no table, no order, no frame, no file;
\* both directories exist when it fails.
C10_EmptyRegistryFailsBeforeLoop ==
  n_linhas = 0 =>
    /\ ~maps.set
    /\ ped_data = <<>>
    /\ cpf_cliente = NoneValue
    /\ ~pedidos_df.set
    /\ ~file_cad.set
    /\ ~file_ped.set
    /\ pc \notin {"vendas", "write_cad", "write_ped", "done"}
    /\ exc.stage = "vendas" =>
         /\ dirs = BothDirs
         /\ cadastros_df.set
         /\ cadastros_df.columns = <<>>

C10_Witness ==
  /\ n_linhas = 0
  /\ n_pedidos = 0
  /\ pc = "raised"
  /\ exc.stage = "vendas"
  /\ dirs = BothDirs
  /\ ~file_cad.set
  /\ ~file_ped.set
====
